---- MODULE Spec2Model ----
(***************************************************************************)
(* Identity pool manager (version cache, SDK version / client environment  *)
(* selection, daily rotation) and content redaction filter of droid2api.   *)
(*                                                                         *)
(* JavaScript values are modelled as records carrying a "type" tag, so     *)
(* that truthiness tests (if (x), x || y) are decided as the engine        *)
(* decides them.  Time is the value of Date.now(), counted in model ticks. *)
(***************************************************************************)
EXTENDS Integers, Sequences, FiniteSets, TLC

(***************************************************************************)
(* Bounds of the model.                                                    *)
(***************************************************************************)
\* Math.random() is bounded: a draw from the openai pool or from the environments
\* picks one of the first MaxDraw entries, a draw from the anthropic or runtime
\* pool one of the first MaxDrawOther entries.
MaxDraw == 2
MaxDrawOther == 1
\* Date.now() advances at most MaxClock ticks.
MaxClock == 4
\* Number of clock ticks that make up the 24 hour interval.
IntervalTicks == 2
\* Number of scheduled bodies (timer callbacks) that may be in progress at once.
MaxTasks == 2
\* Number of process restarts.
MaxRestarts == 1
\* Number of getFactoryCliVersion() calls the caller of the module makes in one process.
MaxCalls == 1
\* Number of pieces an argument of filterText is made of.
MaxFragments == 3
\* Length of the messages array of a request.
MaxMessages == 2
\* Number of outcomes of Math.random() a generateUUID() call draws from.
MaxSeeds == 2

(***************************************************************************)
(* Program constants.                                                      *)
(***************************************************************************)
UPDATE_INTERVAL_MS == IntervalTicks

DEFAULT_VERSION == "0.25.2"

SDK_VERSION_POOLS ==
  [ anthropic |-> <<"0.56.0", "0.57.0", "0.57.1", "0.58.0", "0.59.0">>,
    openai    |-> <<"5.22.0", "5.23.0", "5.23.2", "5.24.0", "5.25.0">>,
    runtime   |-> <<"v24.1.0", "v24.2.0", "v24.3.0", "v24.4.0", "v24.5.0">> ]

CLIENT_ENVIRONMENTS ==
  << [type |-> "object", os |-> "MacOS",   arch |-> "x64",   runtime |-> "node"],
     [type |-> "object", os |-> "MacOS",   arch |-> "arm64", runtime |-> "node"],
     [type |-> "object", os |-> "Linux",   arch |-> "x64",   runtime |-> "node"],
     [type |-> "object", os |-> "Windows", arch |-> "x64",   runtime |-> "node"] >>

(***************************************************************************)
(* JavaScript values.                                                      *)
(***************************************************************************)
\* The value of a property that is not there.
UNDEF == "undefined"

\* null, in the shape of an SDK selection and of an environment.
NullSdk == [type |-> "null", anthropic |-> UNDEF, openai |-> UNDEF, runtime |-> UNDEF]
NullEnv == [type |-> "null", os |-> UNDEF, arch |-> UNDEF, runtime |-> UNDEF]

\* A missing field of the parsed record (undefined).
NoSdk == [type |-> "undefined", anthropic |-> UNDEF, openai |-> UNDEF, runtime |-> UNDEF]
NoEnv == [type |-> "undefined", os |-> UNDEF, arch |-> UNDEF, runtime |-> UNDEF]

\* if (v): objects and non-empty strings are truthy, null and undefined are not.
Truthy(v) == v.type \in {"object", "string"}

\* a || b
OrElse(a, b) == IF Truthy(a) THEN a ELSE b

Min(a, b) == IF a < b THEN a ELSE b

\* The indices Math.floor(Math.random() * pool.length) can produce, within the bound.
RandomIndex(pool, bound) == 1 .. Min(bound, Len(pool))

\* All results of selectRandomSdkVersions().
selectRandomSdkVersions ==
  { [type |-> "object",
     anthropic |-> SDK_VERSION_POOLS.anthropic[i],
     openai    |-> SDK_VERSION_POOLS.openai[j],
     runtime   |-> SDK_VERSION_POOLS.runtime[k]] :
      i \in RandomIndex(SDK_VERSION_POOLS.anthropic, MaxDrawOther),
      j \in RandomIndex(SDK_VERSION_POOLS.openai, MaxDraw),
      k \in RandomIndex(SDK_VERSION_POOLS.runtime, MaxDrawOther) }

\* All results of selectRandomEnvironment().
selectRandomEnvironment ==
  { CLIENT_ENVIRONMENTS[i] : i \in RandomIndex(CLIENT_ENVIRONMENTS, MaxDraw) }

SeqRange(s) == { s[i] : i \in 1 .. Len(s) }

\* Membership in the pools, whatever the bound on the draws.
InSdkPools(v) ==
  /\ v.type = "object"
  /\ v.anthropic \in SeqRange(SDK_VERSION_POOLS.anthropic)
  /\ v.openai \in SeqRange(SDK_VERSION_POOLS.openai)
  /\ v.runtime \in SeqRange(SDK_VERSION_POOLS.runtime)

InEnvPool(v) == v \in SeqRange(CLIENT_ENVIRONMENTS)

(***************************************************************************)
(* The persisted record (.version-cache.json) and the file system.         *)
(***************************************************************************)
\* No file, or a file JSON.parse rejects: loadVersionCache() returns null.
NoFile == [file |-> "missing", version |-> UNDEF, timestamp |-> 0,
           sdk_versions |-> NoSdk, environment |-> NoEnv]
CorruptFile == [file |-> "corrupt", version |-> UNDEF, timestamp |-> 0,
                sdk_versions |-> NoSdk, environment |-> NoEnv]

\* The value null of the local variable "cache".
NullCache == [file |-> "null", version |-> UNDEF, timestamp |-> 0,
              sdk_versions |-> NoSdk, environment |-> NoEnv]

\* fs modes: "ok" reads and writes succeed, "ro" writes throw, "down" both throw.
DiskModes == {"ok", "ro", "down"}

loadVersionCache(d, mode) ==
  IF mode \in {"ok", "ro"} /\ d.file = "ok" THEN d ELSE NullCache

\* saveVersionCache(version, sdkVersions, environment) at time t: the whole
\* file is rewritten; a falsy sdkVersions or environment is left out.
saveVersionCache(d, mode, version, sdkVersions, environment, t) ==
  IF mode = "ok"
  THEN [file |-> "ok", version |-> version, timestamp |-> t,
        sdk_versions |-> IF Truthy(sdkVersions) THEN sdkVersions ELSE NoSdk,
        environment |-> IF Truthy(environment) THEN environment ELSE NoEnv]
  ELSE d

\* cache && cache.version
HasVersion(cache) == cache.file = "ok" /\ cache.version \notin {UNDEF, ""}

\* needsUpdate(cache) at time t (a timestamp of 0 is falsy).
needsUpdate(cache, t) ==
  IF cache.file # "ok" \/ cache.timestamp = 0
  THEN TRUE
  ELSE t - cache.timestamp >= UPDATE_INTERVAL_MS

(***************************************************************************)
(* State.                                                                  *)
(***************************************************************************)
VARIABLES
  cachedSdkVersions,  \* module variable: the in-memory SDK selection, or null
  cachedEnvironment,  \* module variable: the in-memory environment, or null
  disk,               \* the content of VERSION_CACHE_FILE
  diskMode,           \* whether reads and writes of the file succeed
  now,                \* Date.now()
  boot,               \* initializeVersionUpdater(): its position and its local "cache"
  timer,              \* setInterval: 0 when not armed, else the time of the next callback
  tasks,              \* timer callbacks suspended at an await of fetchLatestVersion()
  restarts,           \* number of process restarts so far
  calls,              \* getFactoryCliVersion() calls of the caller: how many it has
                      \* made, and those suspended at their fetch
  hist,               \* history: what the getters returned last, and at the last restart
  obs,                \* the operation that ran last, with its inputs and its result
  text,               \* filterText: the argument of a call
  filtered,           \* filterText(text), once the call was made
  refiltered,         \* filterText(filterText(text)), once the second call was made
  openaiRequest,      \* transformToCommon: the caller's request object
  systemPrompt,       \* what getSystemPrompt() returns
  commonRequest,      \* what transformToCommon(openaiRequest) returned or raised
  filteredMessages    \* what filterMessages(openaiRequest.messages) returned

\* The variables of the request transformation.
tvars == <<openaiRequest, systemPrompt, commonRequest, filteredMessages>>

\* The variables of the redaction filter and of the request transformation.
fvars == <<text, filtered, refiltered, tvars>>

vars == <<cachedSdkVersions, cachedEnvironment, disk, diskMode, now, boot, timer,
          tasks, restarts, calls, hist, obs, fvars>>

\* fetchLatestVersion() resolves to a version, or to null when the request or the parse fails.
FETCH_FAILED == "null"
LatestVersions == {"0.26.0"}
FetchOutcomes == LatestVersions \cup {FETCH_FAILED}

StartClock == UPDATE_INTERVAL_MS + 1
EndClock == StartClock + MaxClock

(***************************************************************************)
(* getFactoryCliVersion(), cut at its one await.                           *)
(***************************************************************************)
\* Lines 299-305: the record is used as it is when it has a version and is fresh.
UsesCachedVersion(cache, t) == HasVersion(cache) /\ ~needsUpdate(cache, t)

\* Mutant of getFactoryCliVersionResume: after a failed fetch the default is
\* returned even when the record has a version.
getFactoryCliVersionResumeDefault(d, mode, cache, latestVersion, t) ==
  IF latestVersion # FETCH_FAILED
  THEN [ret |-> latestVersion,
        disk |-> saveVersionCache(d, mode, latestVersion,
                                  OrElse(cache.sdk_versions, NullSdk),
                                  OrElse(cache.environment, NullEnv), t)]
  ELSE [ret |-> DEFAULT_VERSION, disk |-> d]

\* Lines 311-326: what follows the await, given the local "cache" and the fetch outcome.
\* Returns the version returned and the file as it is left.
getFactoryCliVersionResume(d, mode, cache, latestVersion, t) ==
  IF latestVersion # FETCH_FAILED
  THEN [ret |-> latestVersion,
        disk |-> saveVersionCache(d, mode, latestVersion,
                                  OrElse(cache.sdk_versions, NullSdk),
                                  OrElse(cache.environment, NullEnv), t)]
  ELSE [ret |-> IF HasVersion(cache) THEN cache.version ELSE DEFAULT_VERSION,
        disk |-> d]

(***************************************************************************)
(* getSdkVersions() and getClientEnvironment(): synchronous.  Each is the  *)
(* set of its possible outcomes, one per result of the random selections   *)
(* it makes: the value returned, the module variable and the file as they  *)
(* are left, and the branch taken.                                         *)
(***************************************************************************)
\* Mutant of getSdkVersions: without the early return on the in-memory selection.
getSdkVersionsNoMemo(mem, d, mode, t) ==
  LET cache == loadVersionCache(d, mode) IN
  IF cache.file = "ok" /\ Truthy(cache.sdk_versions)
  THEN {[ret |-> cache.sdk_versions, mem |-> cache.sdk_versions, disk |-> d,
         path |-> "disk"]}
  ELSE LET cliVersion == IF HasVersion(cache) THEN cache.version ELSE DEFAULT_VERSION
           environments == IF Truthy(cache.environment)
                           THEN {cache.environment}
                           ELSE selectRandomEnvironment
       IN { [ret |-> s, mem |-> s,
             disk |-> saveVersionCache(d, mode, cliVersion, s, environment, t),
             path |-> "drawn"] :
              s \in selectRandomSdkVersions, environment \in environments }

getSdkVersions(mem, d, mode, t) ==
  IF Truthy(mem)
  THEN {[ret |-> mem, mem |-> mem, disk |-> d, path |-> "memory"]}
  ELSE LET cache == loadVersionCache(d, mode) IN
       IF cache.file = "ok" /\ Truthy(cache.sdk_versions)
       THEN {[ret |-> cache.sdk_versions, mem |-> cache.sdk_versions, disk |-> d,
              path |-> "disk"]}
       ELSE LET cliVersion == IF HasVersion(cache) THEN cache.version ELSE DEFAULT_VERSION
                environments == IF Truthy(cache.environment)
                                THEN {cache.environment}
                                ELSE selectRandomEnvironment
            IN { [ret |-> s, mem |-> s,
                  disk |-> saveVersionCache(d, mode, cliVersion, s, environment, t),
                  path |-> "drawn"] :
                   s \in selectRandomSdkVersions, environment \in environments }

\* Mutant of getClientEnvironment: the save takes the default CLI version
\* instead of the version of the record.
getClientEnvironmentDefaultVersion(mem, d, mode, t) ==
  IF Truthy(mem)
  THEN {[ret |-> mem, mem |-> mem, disk |-> d, path |-> "memory"]}
  ELSE LET cache == loadVersionCache(d, mode) IN
       IF cache.file = "ok" /\ Truthy(cache.environment)
       THEN {[ret |-> cache.environment, mem |-> cache.environment, disk |-> d,
              path |-> "disk"]}
       ELSE LET sdks == IF Truthy(cache.sdk_versions)
                        THEN {cache.sdk_versions}
                        ELSE selectRandomSdkVersions
            IN { [ret |-> e, mem |-> e,
                  disk |-> saveVersionCache(d, mode, DEFAULT_VERSION, sdkVersions, e, t),
                  path |-> "drawn"] :
                   e \in selectRandomEnvironment, sdkVersions \in sdks }

getClientEnvironment(mem, d, mode, t) ==
  IF Truthy(mem)
  THEN {[ret |-> mem, mem |-> mem, disk |-> d, path |-> "memory"]}
  ELSE LET cache == loadVersionCache(d, mode) IN
       IF cache.file = "ok" /\ Truthy(cache.environment)
       THEN {[ret |-> cache.environment, mem |-> cache.environment, disk |-> d,
              path |-> "disk"]}
       ELSE LET cliVersion == IF HasVersion(cache) THEN cache.version ELSE DEFAULT_VERSION
                sdks == IF Truthy(cache.sdk_versions)
                        THEN {cache.sdk_versions}
                        ELSE selectRandomSdkVersions
            IN { [ret |-> e, mem |-> e,
                  disk |-> saveVersionCache(d, mode, cliVersion, sdkVersions, e, t),
                  path |-> "drawn"] :
                   e \in selectRandomEnvironment, sdkVersions \in sdks }

(***************************************************************************)
(* getCommonHeaders(): the SDK-fingerprint headers.                        *)
(***************************************************************************)
StainlessHeaders ==
  {"x-stainless-arch", "x-stainless-lang", "x-stainless-os", "x-stainless-runtime",
   "x-stainless-retry-count", "x-stainless-package-version",
   "x-stainless-runtime-version"}

\* Lines 75-83: the defaults taken from the current selection.
stainlessDefaults(sdkVersions, environment) ==
  [h \in StainlessHeaders |->
     CASE h = "x-stainless-arch" -> environment.arch
       [] h = "x-stainless-lang" -> "js"
       [] h = "x-stainless-os" -> environment.os
       [] h = "x-stainless-runtime" -> environment.runtime
       [] h = "x-stainless-retry-count" -> "0"
       [] h = "x-stainless-package-version" -> sdkVersions.openai
       [] h = "x-stainless-runtime-version" -> sdkVersions.runtime]

\* a || b on strings: undefined and the empty string are falsy.
StrOr(a, b) == IF a \notin {UNDEF, ""} THEN a ELSE b

\* Lines 86-88: a client header wins over the default when it is truthy.
stainlessHeaders(clientHeaders, sdkVersions, environment) ==
  [h \in StainlessHeaders |->
     StrOr(clientHeaders[h], stainlessDefaults(sdkVersions, environment)[h])]

\* The two correlation headers.  Their values are sequences of characters.
IdHeaders == {"x-session-id", "x-assistant-message-id"}

\* The value of a correlation header the caller did not send.
NoId == <<"undefined">>

\* a || b on a correlation header: undefined and the empty string are falsy.
IdOr(a, b) == IF a \notin {NoId, <<>>} THEN a ELSE b

\* Lines 57-67: the names of the headers object literal.
BaseHeaders ==
  {"accept", "content-type", "authorization", "x-api-provider", "x-factory-client",
   "x-session-id", "x-assistant-message-id", "user-agent", "connection"}

\* The names a caller may send: those the function reads, one it sets itself
\* and one it does not know.
CallerHeaderNames == StainlessHeaders \cup IdHeaders \cup {"user-agent", "x-custom"}

\* getUserAgentSync() of config.js.
getUserAgentSync == "factory-cli"

\* authHeader: a credential, the empty string, undefined or null.
NullAuth == "null"
AuthInputs == {"Bearer sk-1", "", UNDEF, NullAuth}

\* Line 94: the template of generateUUID.
UuidTemplate ==
  <<"x", "x", "x", "x", "x", "x", "x", "x", "-", "x", "x", "x", "x", "-", "4", "x", "x", "x", "-", "y", "x", "x", "x", "-", "x", "x", "x", "x", "x", "x", "x", "x", "x", "x", "x", "x">>

HexDigits == <<"0", "1", "2", "3", "4", "5", "6", "7", "8", "9", "a", "b", "c", "d", "e", "f">>

\* Lines 93-99 with rs[p] the value of Math.random() * 16 | 0 for the character
\* at position p: x becomes the digit of r, y the digit of r & 0x3 | 0x8.
generateUUID(rs) ==
  [p \in 1 .. Len(UuidTemplate) |->
     CASE UuidTemplate[p] = "x" -> HexDigits[rs[p] + 1]
       [] UuidTemplate[p] = "y" -> HexDigits[((rs[p] % 4) + 8) + 1]
       [] OTHER -> UuidTemplate[p]]

\* The outcomes of Math.random() the model draws from: one sequence per seed.
RandomStreams ==
  { [p \in 1 .. Len(UuidTemplate) |-> (seed + 7 * p) % 16] : seed \in 0 .. MaxSeeds - 1 }

\* Mutant of getCommonHeaders: the headers the caller sent are merged in.
getCommonHeadersMerged(authHeader, clientHeaders, sdkVersions, environment, r1, r2) ==
  LET sent == { c \in DOMAIN clientHeaders :
                  IF c \in IdHeaders THEN clientHeaders[c] # NoId ELSE clientHeaders[c] # UNDEF }
  IN
  [h \in BaseHeaders \cup StainlessHeaders \cup sent |->
     IF h \in sent
     THEN clientHeaders[h]
     ELSE CASE h = "accept" -> "application/json"
            [] h = "content-type" -> "application/json"
            [] h = "authorization" -> StrOr(IF authHeader = NullAuth THEN UNDEF ELSE authHeader, "")
            [] h = "x-api-provider" -> "baseten"
            [] h = "x-factory-client" -> "cli"
            [] h = "x-session-id" -> generateUUID(r1)
            [] h = "x-assistant-message-id" -> generateUUID(r2)
            [] h = "user-agent" -> getUserAgentSync
            [] h = "connection" -> "keep-alive"
            [] OTHER -> stainlessDefaults(sdkVersions, environment)[h]]

\* Lines 53-91, with sdkVersions and environment what the two getters returned
\* and r1, r2 the random numbers of the two generateUUID() calls.
getCommonHeaders(authHeader, clientHeaders, sdkVersions, environment, r1, r2) ==
  LET sessionId == IdOr(clientHeaders["x-session-id"], generateUUID(r1))
      messageId == IdOr(clientHeaders["x-assistant-message-id"], generateUUID(r2))
  IN
  [h \in BaseHeaders \cup StainlessHeaders |->
     CASE h = "accept" -> "application/json"
       [] h = "content-type" -> "application/json"
       [] h = "authorization" -> StrOr(IF authHeader = NullAuth THEN UNDEF ELSE authHeader, "")
       [] h = "x-api-provider" -> "baseten"
       [] h = "x-factory-client" -> "cli"
       [] h = "x-session-id" -> sessionId
       [] h = "x-assistant-message-id" -> messageId
       [] h = "user-agent" -> getUserAgentSync
       [] h = "connection" -> "keep-alive"
       [] OTHER -> stainlessHeaders(clientHeaders, sdkVersions, environment)[h]]

NoClientHeaders == [h \in CallerHeaderNames |-> IF h \in IdHeaders THEN NoId ELSE UNDEF]

\* The client header maps of the header synthesizer taken alone.
CallerHeaderInputs ==
  { NoClientHeaders,
    [NoClientHeaders EXCEPT !["x-stainless-os"] = "Android"],
    [NoClientHeaders EXCEPT !["x-stainless-os"] = ""],
    [h \in CallerHeaderNames |->
       IF h \in StainlessHeaders THEN "caller" ELSE NoClientHeaders[h]],
    [NoClientHeaders EXCEPT !["x-session-id"] = <<"a", "b", "c">>,
                            !["x-assistant-message-id"] = <<"m", "1">>],
    [NoClientHeaders EXCEPT !["x-session-id"] = <<>>],
    [NoClientHeaders EXCEPT !["x-custom"] = "1", !["user-agent"] = "curl"] }

\* The client header maps the requests of the model carry.
ClientHeaderInputs ==
  {NoClientHeaders, [NoClientHeaders EXCEPT !["x-stainless-os"] = "Android"]}

NoHeaders == [h \in StainlessHeaders |-> UNDEF]

(***************************************************************************)
(* rotateSdkVersionsAndEnvironment(), up to its await or to its end.       *)
(***************************************************************************)
NoTask == [pc |-> "none", cache |-> NullCache, ts0 |-> 0]

\* The timestamp in the file, 0 when there is no record.
FileTimestamp(d) == IF d.file = "ok" THEN d.timestamp ELSE 0

\* Lines 440-450 with s and e drawn: the new in-memory selection is set at once;
\* the CLI version comes from the record when it is fresh (the rotation then
\* saves and ends), and else the rotation is suspended at the fetch.
rotateStart(d, mode, t, s, e) ==
  LET cache == loadVersionCache(d, mode) IN
  IF UsesCachedVersion(cache, t)
  THEN [done |-> TRUE, cli |-> cache.version,
        disk |-> saveVersionCache(d, mode, cache.version, s, e, t),
        task |-> NoTask, ts0 |-> FileTimestamp(d)]
  ELSE [done |-> FALSE, cli |-> UNDEF, disk |-> d,
        task |-> [pc |-> "rot", cache |-> cache, ts0 |-> FileTimestamp(d)],
        ts0 |-> FileTimestamp(d)]

\* Mutant of rotateResume: the save takes the SDK triple and the environment of
\* the record read before the await instead of the in-memory selection.
rotateResumeStale(d, mode, t, task, latestVersion, memSdk, memEnv) ==
  LET g == getFactoryCliVersionResume(d, mode, task.cache, latestVersion, t) IN
  [cli |-> g.ret, gdisk |-> g.disk,
   disk |-> saveVersionCache(g.disk, mode, g.ret, task.cache.sdk_versions,
                             task.cache.environment, t)]

\* Lines 447-450 after the await: getFactoryCliVersion resumes, then the save
\* of the selection that is in memory at that moment.
rotateResume(d, mode, t, task, latestVersion, memSdk, memEnv) ==
  LET g == getFactoryCliVersionResume(d, mode, task.cache, latestVersion, t) IN
  [cli |-> g.ret, gdisk |-> g.disk,
   disk |-> saveVersionCache(g.disk, mode, g.ret, memSdk, memEnv, t)]

(***************************************************************************)
(* Initial states: a process that starts with some file on disk.           *)
(***************************************************************************)
\* A record an earlier run has written (the example of the repository's notes).
PersistedVersion == "0.24.0"
PersistedSdk == [type |-> "object", anthropic |-> "0.59.0", openai |-> "5.22.0",
                 runtime |-> "v24.3.0"]
PersistedEnv == [type |-> "object", os |-> "Linux", arch |-> "x64", runtime |-> "node"]

\* Malformed fields: of the wrong type, without sub-keys, with values outside the pools.
BadTypeSdk == [type |-> "string", anthropic |-> UNDEF, openai |-> UNDEF, runtime |-> UNDEF]
PartialSdk == [type |-> "object", anthropic |-> "0.57.0", openai |-> UNDEF, runtime |-> UNDEF]
ForeignSdk == [type |-> "object", anthropic |-> "9.9.9", openai |-> "9.9.9", runtime |-> "v1.0.0"]
BadTypeEnv == [type |-> "string", os |-> UNDEF, arch |-> UNDEF, runtime |-> UNDEF]
PartialEnv == [type |-> "object", os |-> "Linux", arch |-> UNDEF, runtime |-> UNDEF]
ForeignEnv == [type |-> "object", os |-> "Solaris", arch |-> "sparc", runtime |-> "deno"]

\* The record is stale (a day old) or fresh (just written).
InitialTimestamps == {StartClock - UPDATE_INTERVAL_MS, StartClock}

Records(sdks, envs) ==
  { [file |-> "ok", version |-> PersistedVersion, timestamp |-> ts,
     sdk_versions |-> sv, environment |-> ev] :
       ts \in InitialTimestamps, sv \in sdks, ev \in envs }

\* No file (first run), or a record of an earlier run: complete, or written
\* before a field was introduced.
WellFormedDisks == {NoFile} \cup Records({NoSdk, PersistedSdk}, {NoEnv, PersistedEnv})

\* A file that does not parse, or with a malformed field.
MalformedDisks ==
  {CorruptFile}
    \cup Records({BadTypeSdk, PartialSdk, ForeignSdk}, {NoEnv, PersistedEnv})
    \cup Records({NoSdk, PersistedSdk}, {BadTypeEnv, PartialEnv, ForeignEnv})
    \cup { [r EXCEPT !.version = ""] : r \in Records({PersistedSdk}, {PersistedEnv}) }

\* The value of filtered and refiltered before the call.
NotCalled == <<"(not called)">>

\* The value of a variable of the request transformation before the call.
JsNotCalled == <<"(not called)", <<>>>>
NoResult == [raised |-> FALSE, value |-> JsNotCalled]

\* No request at hand: the process has not been handed one.
NoRequest == [request |-> JsNotCalled, systemPrompt |-> JsNotCalled]

\* The selection a rotation has drawn: none so far.
NoRotation == [sdk |-> NullSdk, env |-> NullEnv]

NoHist == [sdk |-> NullSdk, env |-> NullEnv, preSdk |-> NullSdk, preEnv |-> NullEnv,
           quiet |-> FALSE, faultFree |-> TRUE, rotation |-> NoRotation]

\* What a step leaves for the properties to read:
\*   ver, latest, gcache, gdisk: the getFactoryCliVersion() call that returned or
\*     was suspended in the step: the version returned, the fetch outcome
\*     (undefined: no fetch resolved), its local "cache", the file as it left it;
\*   sdk, env, sdkPath, envPath: what getSdkVersions() / getClientEnvironment()
\*     returned in the step and by which branch; auth, client, headers, hdr:
\*     the arguments of getCommonHeaders(), its result, and the SDK-fingerprint
\*     headers of the result;
\*   fetch: a fetch was started or resolved; rotated, cli, ts0: a rotation ended,
\*     with the CLI version it obtained and the timestamp of the file at its start;
\*   overlap: a timer callback started while an earlier one was suspended.
Obs(op) == [op |-> op, ver |-> UNDEF, latest |-> UNDEF, gcache |-> NullCache,
            gdisk |-> NullCache, sdk |-> NullSdk, env |-> NullEnv,
            sdkPath |-> "none", envPath |-> "none", hdr |-> NoHeaders,
            client |-> NoClientHeaders, auth |-> UNDEF, headers |-> <<>>,
            fetch |-> FALSE, rotated |-> FALSE, cli |-> UNDEF, ts0 |-> 0,
            overlap |-> FALSE]

BootStartState == [pc |-> "start", cache |-> NullCache]
NoCalls == [made |-> 0, pending |-> <<>>]

\* A process that starts on one of the given files, under one of the given fs modes.
InitWith(disks, modes, texts, requests) ==
  /\ text \in texts
  /\ \E r \in requests : openaiRequest = r.request /\ systemPrompt = r.systemPrompt
  /\ commonRequest = NoResult
  /\ filteredMessages = JsNotCalled
  /\ cachedSdkVersions = NullSdk
  /\ cachedEnvironment = NullEnv
  /\ disk \in disks
  /\ diskMode \in modes
  /\ now = StartClock
  /\ boot = BootStartState
  /\ timer = 0
  /\ tasks = <<>>
  /\ restarts = 0
  /\ calls = NoCalls
  /\ hist = [NoHist EXCEPT !.faultFree = (diskMode = "ok")]
  /\ obs = Obs("init")
  /\ filtered = NotCalled
  /\ refiltered = NotCalled

Init == InitWith(WellFormedDisks, {"ok"}, {<<>>}, {NoRequest})

(***************************************************************************)
(* Request path: the exported getters and getCommonHeaders().              *)
(***************************************************************************)
GetSdkVersions ==
  \E r \in getSdkVersions(cachedSdkVersions, disk, diskMode, now) :
    /\ cachedSdkVersions' = r.mem
    /\ disk' = r.disk
    /\ hist' = [hist EXCEPT !.sdk = r.ret]
    /\ obs' = [Obs("getSdkVersions") EXCEPT !.sdk = r.ret, !.sdkPath = r.path]
    /\ UNCHANGED <<fvars, cachedEnvironment, diskMode, now, boot, timer, tasks, restarts, calls>>

GetClientEnvironment ==
  \E r \in getClientEnvironment(cachedEnvironment, disk, diskMode, now) :
    /\ cachedEnvironment' = r.mem
    /\ disk' = r.disk
    /\ hist' = [hist EXCEPT !.env = r.ret]
    /\ obs' = [Obs("getClientEnvironment") EXCEPT !.env = r.ret, !.envPath = r.path]
    /\ UNCHANGED <<fvars, cachedSdkVersions, diskMode, now, boot, timer, tasks, restarts, calls>>

\* getSdkVersions() followed by getClientEnvironment(), as getCommonHeaders()
\* (lines 71-72) and initializeVersionUpdater() (lines 342-343) call them.
bothGetters(memSdk, memEnv, d, mode, t) ==
  UNION { { [sdk |-> a.ret, env |-> b.ret, memSdk |-> a.mem, memEnv |-> b.mem,
             disk |-> b.disk, sdkPath |-> a.path, envPath |-> b.path] :
              b \in getClientEnvironment(memEnv, a.disk, mode, t) } :
          a \in getSdkVersions(memSdk, d, mode, t) }

\* A request handler calls getCommonHeaders() with one of the given arguments;
\* Math.random() yields one of the given streams.
GetCommonHeadersWith(auths, clients, streams) ==
  \E authHeader \in auths, clientHeaders \in clients, r1 \in streams, r2 \in streams,
     r \in bothGetters(cachedSdkVersions, cachedEnvironment, disk, diskMode, now) :
    /\ cachedSdkVersions' = r.memSdk
    /\ cachedEnvironment' = r.memEnv
    /\ disk' = r.disk
    /\ hist' = [hist EXCEPT !.sdk = r.sdk, !.env = r.env]
    /\ obs' = [Obs("getCommonHeaders") EXCEPT
                 !.sdk = r.sdk, !.env = r.env, !.sdkPath = r.sdkPath,
                 !.envPath = r.envPath, !.client = clientHeaders,
                 !.auth = authHeader,
                 !.headers = getCommonHeaders(authHeader, clientHeaders, r.sdk, r.env, r1, r2),
                 !.hdr = stainlessHeaders(clientHeaders, r.sdk, r.env)]
    /\ UNCHANGED <<fvars, diskMode, now, boot, timer, tasks, restarts, calls>>

\* The requests of the identity model carry a credential and at most one
\* SDK-fingerprint header.
GetCommonHeaders ==
  GetCommonHeadersWith({"Bearer sk-1"}, ClientHeaderInputs,
                       {[p \in 1 .. Len(UuidTemplate) |-> 0]})

\* The header synthesizer with any of its arguments.
BuildHeaders == GetCommonHeadersWith(AuthInputs, CallerHeaderInputs, RandomStreams)

(***************************************************************************)
(* initializeVersionUpdater().                                             *)
(***************************************************************************)
\* Lines 341-350 once getFactoryCliVersion() has returned (o holds what it
\* did, d is the file as it left it): both getters, then setInterval.
BootFinish(o, d) ==
  \E r \in bothGetters(cachedSdkVersions, cachedEnvironment, d, diskMode, now) :
    /\ cachedSdkVersions' = r.memSdk
    /\ cachedEnvironment' = r.memEnv
    /\ disk' = r.disk
    /\ boot' = [pc |-> "ready", cache |-> NullCache]
    /\ timer' = now + UPDATE_INTERVAL_MS
    /\ hist' = [hist EXCEPT !.sdk = r.sdk, !.env = r.env]
    /\ obs' = [o EXCEPT !.sdk = r.sdk, !.env = r.env, !.sdkPath = r.sdkPath,
                 !.envPath = r.envPath]
    /\ UNCHANGED <<fvars, diskMode, now, tasks, restarts, calls>>

\* Line 338: getFactoryCliVersion() returns the fresh record's version, or
\* awaits the fetch.  In both cases initializeVersionUpdater() is suspended
\* at its await and the caller goes on.
BootStart ==
  /\ boot.pc = "start"
  /\ LET cache == loadVersionCache(disk, diskMode) IN
     IF UsesCachedVersion(cache, now)
     THEN /\ boot' = [pc |-> "returned", cache |-> cache]
          /\ obs' = [Obs("boot") EXCEPT !.ver = cache.version, !.gcache = cache,
                       !.gdisk = disk]
     ELSE /\ boot' = [pc |-> "fetching", cache |-> cache]
          /\ obs' = [Obs("boot") EXCEPT !.fetch = TRUE, !.gcache = cache, !.gdisk = disk]
  /\ UNCHANGED <<fvars, cachedSdkVersions, cachedEnvironment, disk, diskMode, now,
                 timer, tasks, restarts, calls, hist>>

\* initializeVersionUpdater() resumes after the await of a call that returned
\* without a fetch.
BootContinue ==
  /\ boot.pc = "returned"
  /\ BootFinish(Obs("bootContinue"), disk)

\* The fetch of the startup call resolves.
BootFetched ==
  /\ boot.pc = "fetching"
  /\ \E latestVersion \in FetchOutcomes :
       LET g == getFactoryCliVersionResume(disk, diskMode, boot.cache, latestVersion, now) IN
       BootFinish([Obs("bootFetched") EXCEPT !.ver = g.ret, !.latest = latestVersion,
                     !.gcache = boot.cache, !.gdisk = g.disk, !.fetch = TRUE], g.disk)

(***************************************************************************)
(* The setInterval callback (lines 346-350).                               *)
(***************************************************************************)
Remove(q, i) == SubSeq(q, 1, i - 1) \o SubSeq(q, i + 1, Len(q))

\* Mutant of ContinueWithRotation: the rotation assigns the SDK triple only,
\* and the environment stays as it was.
ContinueWithRotationSdkOnly(o, i, d) ==
  \E s \in selectRandomSdkVersions, e \in selectRandomEnvironment :
    LET r == rotateStart(d, diskMode, now, s, e) IN
    /\ cachedSdkVersions' = s
    /\ cachedEnvironment' = cachedEnvironment
    /\ disk' = r.disk
    /\ tasks' = IF r.done
                THEN (IF i = 0 THEN tasks ELSE Remove(tasks, i))
                ELSE (IF i = 0 THEN Append(tasks, r.task)
                               ELSE [tasks EXCEPT ![i] = r.task])
    /\ hist' = [hist EXCEPT !.sdk = NullSdk, !.env = NullEnv,
                  !.rotation = [sdk |-> s, env |-> e]]
    /\ obs' = [o EXCEPT !.rotated = r.done, !.cli = r.cli, !.ts0 = r.ts0]

\* The callback goes on with the rotation in the step in which its first
\* getFactoryCliVersion() has returned (o holds what that call did, d is the
\* file as it left it).  i = 0: a new callback, i > 0: the suspended callback i.
ContinueWithRotation(o, i, d) ==
  \E s \in selectRandomSdkVersions, e \in selectRandomEnvironment :
    LET r == rotateStart(d, diskMode, now, s, e) IN
    /\ cachedSdkVersions' = s
    /\ cachedEnvironment' = e
    /\ disk' = r.disk
    /\ tasks' = IF r.done
                THEN (IF i = 0 THEN tasks ELSE Remove(tasks, i))
                ELSE (IF i = 0 THEN Append(tasks, r.task)
                               ELSE [tasks EXCEPT ![i] = r.task])
    /\ hist' = [hist EXCEPT !.sdk = NullSdk, !.env = NullEnv,
                  !.rotation = [sdk |-> s, env |-> e]]
    /\ obs' = [o EXCEPT !.rotated = r.done, !.cli = r.cli, !.ts0 = r.ts0]

(***************************************************************************)
(* getFactoryCliVersion() called by the caller of the module.              *)
(***************************************************************************)
\* Lines 296-306: the call returns the fresh record's version, or awaits the
\* fetch with the record it read as its local "cache".
GetFactoryCliVersion ==
  /\ calls.made < MaxCalls
  /\ LET cache == loadVersionCache(disk, diskMode)
         o == [Obs("getFactoryCliVersion") EXCEPT !.gcache = cache, !.gdisk = disk]
     IN
     IF UsesCachedVersion(cache, now)
     THEN /\ obs' = [o EXCEPT !.ver = cache.version]
          /\ calls' = [calls EXCEPT !.made = @ + 1]
     ELSE /\ obs' = [o EXCEPT !.fetch = TRUE]
          /\ calls' = [made |-> calls.made + 1,
                       pending |-> Append(calls.pending, [cache |-> cache])]
  /\ UNCHANGED <<fvars, cachedSdkVersions, cachedEnvironment, disk, diskMode, now, boot,
                 timer, tasks, restarts, hist>>

\* The fetch of such a call resolves.  It does not resolve between the return
\* of the startup call and the resumption of initializeVersionUpdater(),
\* which is the next job of the microtask queue.
VersionFetched ==
  \E i \in 1 .. Len(calls.pending), latestVersion \in FetchOutcomes :
    /\ boot.pc # "returned"
    /\ LET g == getFactoryCliVersionResume(disk, diskMode, calls.pending[i].cache,
                                           latestVersion, now) IN
       /\ disk' = g.disk
       /\ obs' = [Obs("versionFetched") EXCEPT !.ver = g.ret, !.latest = latestVersion,
                    !.gcache = calls.pending[i].cache, !.gdisk = g.disk, !.fetch = TRUE]
    /\ calls' = [calls EXCEPT !.pending = Remove(calls.pending, i)]
    /\ UNCHANGED <<fvars, cachedSdkVersions, cachedEnvironment, diskMode, now, boot,
                   timer, tasks, restarts, hist>>

\* The timer fires: a new callback starts, whatever the earlier ones are doing.
TimerFire ==
  /\ timer # 0
  /\ now >= timer
  /\ Len(tasks) < MaxTasks
  /\ timer' = now + UPDATE_INTERVAL_MS
  /\ UNCHANGED <<fvars, diskMode, now, boot, restarts, calls>>
  /\ LET cache == loadVersionCache(disk, diskMode)
         o == [Obs("tick") EXCEPT !.gcache = cache, !.gdisk = disk,
                 !.overlap = (tasks # <<>>)]
     IN
     IF UsesCachedVersion(cache, now)
     THEN ContinueWithRotation([o EXCEPT !.ver = cache.version], 0, disk)
     ELSE /\ tasks' = Append(tasks, [pc |-> "cli", cache |-> cache, ts0 |-> 0])
          /\ obs' = [o EXCEPT !.fetch = TRUE]
          /\ UNCHANGED <<cachedSdkVersions, cachedEnvironment, disk, hist>>

\* The fetch of a callback's first getFactoryCliVersion() resolves.
CliFetched ==
  \E i \in 1 .. Len(tasks), latestVersion \in FetchOutcomes :
    /\ tasks[i].pc = "cli"
    /\ LET g == getFactoryCliVersionResume(disk, diskMode, tasks[i].cache,
                                           latestVersion, now) IN
       ContinueWithRotation([Obs("cliFetched") EXCEPT !.ver = g.ret,
                               !.latest = latestVersion, !.gcache = tasks[i].cache,
                               !.gdisk = g.disk, !.fetch = TRUE], i, g.disk)
    /\ UNCHANGED <<fvars, diskMode, now, boot, timer, restarts, calls>>

\* The fetch of a rotation's getFactoryCliVersion() resolves.
RotFetched ==
  \E i \in 1 .. Len(tasks), latestVersion \in FetchOutcomes :
    /\ tasks[i].pc = "rot"
    /\ LET r == rotateResume(disk, diskMode, now, tasks[i], latestVersion,
                             cachedSdkVersions, cachedEnvironment) IN
       /\ disk' = r.disk
       /\ obs' = [Obs("rotFetched") EXCEPT !.ver = r.cli, !.latest = latestVersion,
                    !.gcache = tasks[i].cache, !.gdisk = r.gdisk, !.fetch = TRUE,
                    !.rotated = TRUE, !.cli = r.cli, !.ts0 = tasks[i].ts0]
    /\ tasks' = Remove(tasks, i)
    /\ UNCHANGED <<fvars, cachedSdkVersions, cachedEnvironment, diskMode, now, boot, timer,
                   restarts, calls, hist>>

(***************************************************************************)
(* Environment: time, the file system, the process.                        *)
(***************************************************************************)
Clock ==
  /\ now < EndClock
  /\ now' = now + 1
  /\ obs' = Obs("clock")
  /\ UNCHANGED <<fvars, cachedSdkVersions, cachedEnvironment, disk, diskMode, boot, timer,
                 tasks, restarts, calls, hist>>

\* The file system changes its mode: reads and writes of the file start to
\* fail, or to succeed again.
DiskFault ==
  /\ \E m \in DiskModes \ {diskMode} : diskMode' = m
  /\ hist' = [hist EXCEPT !.faultFree = FALSE]
  /\ obs' = Obs("fault")
  /\ UNCHANGED <<fvars, cachedSdkVersions, cachedEnvironment, disk, now, boot, timer,
                 tasks, restarts, calls>>

\* The process ends and starts again: module variables, timer and pending
\* callbacks are gone, the file stays.
Restart ==
  /\ restarts < MaxRestarts
  /\ restarts' = restarts + 1
  /\ cachedSdkVersions' = NullSdk
  /\ cachedEnvironment' = NullEnv
  /\ boot' = BootStartState
  /\ timer' = 0
  /\ tasks' = <<>>
  /\ calls' = NoCalls
  /\ hist' = [hist EXCEPT !.sdk = NullSdk, !.env = NullEnv, !.rotation = NoRotation,
                !.preSdk = cachedSdkVersions, !.preEnv = cachedEnvironment,
                !.quiet = (boot.pc = "ready" /\ tasks = <<>>)]
  /\ obs' = Obs("restart")
  /\ UNCHANGED <<fvars, disk, diskMode, now>>

\* The steps of a server that starts the updater and serves requests, but
\* for the resumption of a startup that found a fresh record.
NextFetching ==
  \/ GetSdkVersions
  \/ GetClientEnvironment
  \/ GetCommonHeaders
  \/ BootStart
  \/ BootFetched
  \/ TimerFire
  \/ CliFetched
  \/ RotFetched
  \/ Clock

\* A caller that starts the updater and serves requests.
NextServer == NextFetching \/ BootContinue

\* A caller that calls getFactoryCliVersion() on its own as well.
Next ==
  \/ NextServer
  \/ GetFactoryCliVersion
  \/ VersionFetched

NextRestart == NextServer \/ Restart

\* One process; the file system works and the record is well-formed.
Spec == Init /\ [][Next]_vars

\* The server, with restarts of the process.
SpecRestart == Init /\ [][NextRestart]_vars

\* The record on disk is malformed when the process starts.
InitMalformed == InitWith(MalformedDisks, {"ok"}, {<<>>}, {NoRequest})
SpecMalformed == InitMalformed /\ [][NextServer]_vars

\* Every read and every write of the file fails: no call reads a fresh
\* record, and startup always awaits its fetch.
NextDiskDown == NextFetching \/ GetFactoryCliVersion \/ VersionFetched
InitDiskDown == InitWith(WellFormedDisks, {"down"}, {<<>>}, {NoRequest})
SpecDiskDown == InitDiskDown /\ [][NextDiskDown]_vars

\* A first run during which the file system fails and recovers.
NextDiskFault == NextServer \/ DiskFault
InitDiskFault == InitWith({NoFile}, DiskModes, {<<>>}, {NoRequest})
SpecDiskFault == InitDiskFault /\ [][NextDiskFault]_vars

\* getCommonHeaders() called again and again, on any of its arguments.
NextHeaders == BuildHeaders
InitHeaders ==
  InitWith({NoFile} \cup Records({PersistedSdk}, {NoEnv, PersistedEnv}), {"ok"},
           {<<>>}, {NoRequest})
SpecHeaders == InitHeaders /\ [][NextHeaders]_vars

(***************************************************************************)
(* The content redaction filter.  Strings are sequences of characters.     *)
(***************************************************************************)
UpperCase == <<"A", "B", "C", "D", "E", "F", "G", "H", "I", "J", "K", "L", "M",
               "N", "O", "P", "Q", "R", "S", "T", "U", "V", "W", "X", "Y", "Z">>
LowerCase == <<"a", "b", "c", "d", "e", "f", "g", "h", "i", "j", "k", "l", "m",
               "n", "o", "p", "q", "r", "s", "t", "u", "v", "w", "x", "y", "z">>

\* Case folding of the i flag.
Lower(c) ==
  IF \E i \in 1 .. Len(UpperCase) : UpperCase[i] = c
  THEN LowerCase[CHOOSE i \in 1 .. Len(UpperCase) : UpperCase[i] = c]
  ELSE c

\* The characters \s matches.
\* A character a TLA+ string cannot hold is written as its code point.
WhiteSpace ==
  {" ", "\t", "\n", "\r", "\f", "U+000B", "U+00A0", "U+1680", "U+2000", "U+2001",
   "U+2002", "U+2003", "U+2004", "U+2005", "U+2006", "U+2007", "U+2008", "U+2009",
   "U+200A", "U+2028", "U+2029", "U+202F", "U+205F", "U+3000", "U+FEFF"}

\* A pattern /first\s*second/gi, or /first/gi when second is empty; in lower case.
Pattern(first, second) == [first |-> first, second |-> second]

AI_AGENT_PATTERNS ==
  <<
     Pattern(<<"g", "i", "t", "h", "u", "b">>, <<"c", "o", "p", "i", "l", "o", "t">>),
     Pattern(<<"c", "l", "a", "u", "d", "e">>, <<"c", "o", "d", "e">>),
     Pattern(<<"k", "i", "l", "o">>, <<"c", "o", "d", "e">>),
     Pattern(<<"c", "l", "a", "u", "d", "e">>, <<"c", "l", "i">>),
     Pattern(<<"a", "n", "t", "h", "r", "o", "p", "i", "c">>, <<"c", "l", "i">>),
     Pattern(<<"o", "p", "e", "n", "a", "i">>, <<"c", "l", "i">>),
     Pattern(<<"r", "e", "p", "l", "i", "t">>, <<"a", "g", "e", "n", "t">>),
     Pattern(<<"a", "m", "a", "z", "o", "n">>, <<"q">>),
     Pattern(<<"z", "e", "d">>, <<"a", "i">>),
     Pattern(<<"c", "h", "a", "t", "g", "p", "t">>, <<>>),
     Pattern(<<"c", "u", "r", "s", "o", "r">>, <<>>),
     Pattern(<<"c", "o", "p", "i", "l", "o", "t">>, <<>>),
     Pattern(<<"w", "i", "n", "d", "s", "u", "r", "f">>, <<>>),
     Pattern(<<"c", "l", "i", "n", "e">>, <<>>),
     Pattern(<<"a", "i", "d", "e", "r">>, <<>>),
     Pattern(<<"d", "e", "v", "i", "n">>, <<>>),
     Pattern(<<"b", "o", "l", "t">>, <<>>),
     Pattern(<<"v", "0">>, <<>>),
     Pattern(<<"c", "o", "n", "t", "i", "n", "u", "e">>, <<>>),
     Pattern(<<"t", "a", "b", "n", "i", "n", "e">>, <<>>),
     Pattern(<<"c", "o", "d", "e", "i", "u", "m">>, <<>>),
     Pattern(<<"c", "o", "d", "e", "w", "h", "i", "s", "p", "e", "r", "e", "r">>, <<>>)
  >>

\* The replacement string 'Droid'.
Droid == <<"D", "r", "o", "i", "d">>

\* The literal lit matches s at position pos, whatever the case.
MatchesLiteral(s, pos, lit) ==
  /\ pos + Len(lit) - 1 <= Len(s)
  /\ \A k \in 1 .. Len(lit) : Lower(s[pos + k - 1]) = lit[k]

\* The position after the white space that starts at pos (\s* is greedy, and
\* the literal that follows it starts with a letter).
RECURSIVE SkipWhiteSpace(_, _)
SkipWhiteSpace(s, pos) ==
  IF pos <= Len(s) /\ s[pos] \in WhiteSpace THEN SkipWhiteSpace(s, pos + 1) ELSE pos

\* The position after the match of pattern at pos, or 0 when there is none.
MatchEnd(s, pos, pattern) ==
  IF ~MatchesLiteral(s, pos, pattern.first)
  THEN 0
  ELSE IF pattern.second = <<>>
       THEN pos + Len(pattern.first)
       ELSE LET q == SkipWhiteSpace(s, pos + Len(pattern.first)) IN
            IF MatchesLiteral(s, q, pattern.second) THEN q + Len(pattern.second) ELSE 0

\* s.replace(pattern, 'Droid') from position pos on: the matches are found
\* from left to right in s itself, each search starting after the last match.
RECURSIVE ReplaceFrom(_, _, _)
ReplaceFrom(s, pos, pattern) ==
  IF pos > Len(s)
  THEN <<>>
  ELSE LET e == MatchEnd(s, pos, pattern) IN
       IF e # 0
       THEN Droid \o ReplaceFrom(s, e, pattern)
       ELSE <<s[pos]>> \o ReplaceFrom(s, pos + 1, pattern)

\* Lines 45-51: the patterns k, k+1, ... applied in turn to the rewritten string.
RECURSIVE ApplyPatterns(_, _)
ApplyPatterns(s, k) ==
  IF k > Len(AI_AGENT_PATTERNS)
  THEN s
  ELSE ApplyPatterns(ReplaceFrom(s, 1, AI_AGENT_PATTERNS[k]), k + 1)

\* filterText(text) for a string (the empty string is returned as it is).
filterText(s) == IF s = <<>> THEN s ELSE ApplyPatterns(s, 1)

\* Some pattern of the list matches somewhere in s.
HasBrandMatch(s) ==
  \E k \in 1 .. Len(AI_AGENT_PATTERNS), pos \in 1 .. Len(s) :
    MatchEnd(s, pos, AI_AGENT_PATTERNS[k]) # 0

\* The arguments of the model: up to MaxFragments of these pieces, concatenated.
Fragments ==
  {
    <<"D", "e", "v", "i", "n">>,
    <<"e", "v", "i", "n">>,
    <<"v", "0">>,
    <<"C", "u", "r", "s", "o", "r">>,
    <<"C", "L", "A", "U", "D", "E">>,
    <<" ">>,
    <<"\r", "U+00A0">>,
    <<"c", "o", "d", "e">>,
    <<"x">>
  }

RECURSIVE Texts(_)
Texts(n) ==
  IF n = 0
  THEN {<<>>}
  ELSE LET shorter == Texts(n - 1) IN
       shorter \cup { t \o f : t \in shorter, f \in Fragments }

InitFilter == InitWith({NoFile}, {"ok"}, Texts(MaxFragments), {NoRequest})

\* A caller passes text to filterText().
FilterOnce ==
  /\ filtered = NotCalled
  /\ filtered' = filterText(text)
  /\ UNCHANGED <<cachedSdkVersions, cachedEnvironment, disk, diskMode, now, boot, timer,
                 tasks, restarts, calls, hist, obs, text, refiltered, tvars>>

\* The result is passed to filterText() again.
FilterTwice ==
  /\ filtered # NotCalled
  /\ refiltered = NotCalled
  /\ refiltered' = filterText(filtered)
  /\ UNCHANGED <<cachedSdkVersions, cachedEnvironment, disk, diskMode, now, boot, timer,
                 tasks, restarts, calls, hist, obs, text, filtered, tvars>>

NextFilter == FilterOnce \/ FilterTwice

\* filterText() applied to each argument, and again to its result.
SpecFilter == InitFilter /\ [][NextFilter]_vars

(***************************************************************************)
(* JSON values of a request: tagged, strings as sequences of characters,   *)
(* arrays as sequences of values, objects as functions from keys to values.*)
(***************************************************************************)
JsUndefined == <<"undefined", <<>>>>
JsNull == <<"null", <<>>>>
JsString(s) == <<"string", s>>
JsNumber(n) == <<"number", n>>
JsArray(a) == <<"array", a>>
JsObject(f) == <<"object", f>>

\* typeof and Array.isArray in one tag, and the value under it.
Tag(x) == x[1]
Val(x) == x[2]

\* if (x): undefined, null, '' and 0 are falsy.
JsTruthy(x) ==
  CASE Tag(x) \in {"undefined", "null"} -> FALSE
    [] Tag(x) = "string" -> Val(x) # <<>>
    [] Tag(x) = "number" -> Val(x) # 0
    [] OTHER -> TRUE

\* x.k where x is neither null nor undefined: a missing key reads as undefined.
Get(x, k) ==
  IF Tag(x) = "object" /\ k \in DOMAIN Val(x) THEN Val(x)[k] ELSE JsUndefined

\* { ...x, k: val }, and x.k = val on a copy of x.
Put(x, k, val) ==
  JsObject([j \in DOMAIN Val(x) \cup {k} |-> IF j = k THEN val ELSE Val(x)[j]])

\* filterText(text) for any value: lines 38-40 return what is not a string, and
\* the empty string, as it is.
filterTextValue(x) ==
  IF Tag(x) = "string" THEN JsString(filterText(Val(x))) ELSE x

\* String(i) of an array index: its decimal digits.
Digits == <<"0", "1", "2", "3", "4", "5", "6", "7", "8", "9">>

RECURSIVE IndexKey(_)
IndexKey(i) ==
  IF i < 10 THEN Digits[i + 1] ELSE IndexKey(i \div 10) \o Digits[(i % 10) + 1]

\* { ...x } of lines 77, 108, where typeof x is 'object': an array gives a
\* plain object whose keys are the indexes of the array.
Spread(x) ==
  IF Tag(x) = "array"
  THEN JsObject([k \in { IndexKey(i - 1) : i \in 1 .. Len(Val(x)) } |->
                   Val(x)[CHOOSE i \in 1 .. Len(Val(x)) : IndexKey(i - 1) = k]])
  ELSE x

\* Lines 73-85: one part of a content array.
filterPart(part) ==
  IF Tag(part) = "string"
  THEN filterTextValue(part)
  ELSE IF Tag(part) \in {"object", "array"}
       THEN LET f0 == Spread(part)
                f1 == IF JsTruthy(Get(f0, "text"))
                      THEN Put(f0, "text", filterTextValue(Get(f0, "text")))
                      ELSE f0
                f2 == IF JsTruthy(Get(f1, "content")) /\ Tag(Get(f1, "content")) = "string"
                      THEN Put(f1, "content", filterTextValue(Get(f1, "content")))
                      ELSE f1
            IN f2
       ELSE part

filterMessageContent(content) ==
  CASE Tag(content) = "string" -> filterTextValue(content)
    [] Tag(content) = "array" ->
         JsArray([i \in 1 .. Len(Val(content)) |-> filterPart(Val(content)[i])])
    [] OTHER -> content

\* Lines 103-115: one entry of the messages array.
filterMessage(msg) ==
  IF ~JsTruthy(msg) \/ Tag(msg) \notin {"object", "array"}
  THEN msg
  ELSE LET filtered0 == Spread(msg) IN
       IF JsTruthy(Get(filtered0, "content"))
       THEN Put(filtered0, "content", filterMessageContent(Get(filtered0, "content")))
       ELSE filtered0

filterMessages(messages) ==
  IF Tag(messages) # "array"
  THEN messages
  ELSE JsArray([i \in 1 .. Len(Val(messages)) |-> filterMessage(Val(messages)[i])])

(***************************************************************************)
(* transformToCommon().  A call returns a value or raises a TypeError;     *)
(* "input" is the caller's object as the call leaves it.                   *)
(***************************************************************************)
System == JsString(<<"s", "y", "s", "t", "e", "m">>)

Returned(value, input) == [raised |-> FALSE, value |-> value, input |-> input]
Raised(input) == [raised |-> TRUE, value |-> JsUndefined, input |-> input]

\* m.role of lines 21, 26: reading a property of null or undefined raises.
Nullish(m) == Tag(m) \in {"null", "undefined"}
IsSystem(m) == Get(m, "role") = System

\* messages.findIndex(m => m.role === 'system') from entry i on: the index of
\* the first system message, 0 when there is none (-1 in the code), and
\* TypeError when an entry before it is null or undefined.
TypeError == -1

RECURSIVE findIndexSystem(_, _)
findIndexSystem(a, i) ==
  IF i > Len(a)
  THEN 0
  ELSE IF Nullish(a[i])
       THEN TypeError
       ELSE IF IsSystem(a[i]) THEN i ELSE findIndexSystem(a, i + 1)

\* Lines 25-35: the map over the messages, first the first system message.
prependToFirstSystem(a, first, prompt) ==
  [i \in 1 .. Len(a) |->
     IF i = first
     THEN LET content == Get(a[i], "content")
              userContent == IF Tag(content) = "string" THEN content ELSE JsString(<<>>)
          IN JsObject([role |-> System,
                       content |-> JsString(Val(prompt) \o Val(filterTextValue(userContent)))])
     ELSE a[i]]

\* Mutant of transformToCommon: the filtered messages are stored in the
\* caller's object, which is returned.
transformToCommonInPlace(request, prompt) ==
  LET changed == Put(request, "messages", filterMessages(Get(request, "messages"))) IN
  Returned(changed, changed)

\* Mutant of transformToCommon: the directive is appended after the messages.
transformToCommonAppend(request, prompt) ==
  LET messages == filterMessages(Get(request, "messages"))
      object == [role |-> System, content |-> prompt]
  IN Returned(Put(request, "messages",
                  IF Tag(messages) = "array" /\ JsTruthy(prompt)
                  THEN JsArray(Append(Val(messages), JsObject(object)))
                  ELSE messages), request)

\* transformToCommon(openaiRequest) with getSystemPrompt() = prompt.
transformToCommon(request, prompt) ==
  LET messages == filterMessages(Get(request, "messages"))
      common == Put(request, "messages", messages)
  IN
  IF ~JsTruthy(prompt)
  THEN Returned(common, request)
  ELSE IF Nullish(messages)
       \* messages?.some(...) is undefined: the else branch, with messages || []
       THEN Returned(Put(common, "messages",
                         JsArray(<<JsObject([role |-> System, content |-> prompt])>>)),
                     request)
       ELSE IF Tag(messages) # "array"
            \* messages.some is not a function
            THEN Raised(request)
            ELSE LET first == findIndexSystem(Val(messages), 1) IN
                 IF first = TypeError
                 THEN Raised(request)
                 ELSE IF first # 0
                      THEN IF \E i \in 1 .. Len(Val(messages)) : Nullish(Val(messages)[i])
                           \* the map reads msg.role of every entry
                           THEN Raised(request)
                           ELSE Returned(Put(common, "messages",
                                    JsArray(prependToFirstSystem(Val(messages), first, prompt))),
                                  request)
                      ELSE Returned(Put(common, "messages",
                                JsArray(<<JsObject([role |-> System, content |-> prompt])>>
                                        \o Val(messages))),
                              request)

(***************************************************************************)
(* The requests of the model.                                              *)
(***************************************************************************)
User == JsString(<<"u", "s", "e", "r">>)

\* The parts of a content array: a string, a text part, a tool result with a
\* string content, a part whose text and content are no strings, null, a
\* number, an array.
PartInputs ==
  << JsString(<<"D", "e", "v", "i", "n">>),
     JsObject([type |-> JsString(<<"t", "e", "x", "t">>), text |-> JsString(<<"C", "l", "a", "u", "d", "e", " ", "C", "o", "d", "e">>)]),
     JsObject([type |-> JsString(<<"B", "o", "l", "t">>), content |-> JsString(<<"C", "u", "r", "s", "o", "r">>)]),
     JsObject([type |-> JsString(<<"C", "l", "i", "n", "e">>), text |-> JsNumber(7),
               content |-> JsArray(<<JsString(<<"v", "0">>)>>)]),
     JsNull,
     JsNumber(7),
     JsArray(<<JsString(<<"v", "0">>)>>) >>

ContentInputs ==
  { JsString(<<"v", "0", "e", "v", "i", "n">>), JsString(<<"C", "u", "r", "s", "o", "r">>), JsArray(PartInputs) }

\* A message object, with or without a content key; name is a field the
\* filter has nothing to do with.
MessageObjects ==
  { JsObject([role |-> r, name |-> JsString(<<"A", "i", "d", "e", "r">>)]) : r \in {System, User} }
    \cup { JsObject([role |-> r, name |-> JsString(<<"A", "i", "d", "e", "r">>), content |-> c]) :
             r \in {System, User}, c \in ContentInputs }

\* Entries of a messages array that are no objects.
NonObjectEntries == { JsNull, JsString(<<"C", "l", "i", "n", "e">>), JsNumber(1) }

\* An entry that is an array.
ArrayEntries == { JsArray(<<JsString(<<"C", "u", "r", "s", "o", "r">>)>>) }

RECURSIVE Arrays(_, _)
Arrays(entries, n) ==
  IF n = 0
  THEN {<<>>}
  ELSE LET shorter == Arrays(entries, n - 1) IN
       shorter \cup { Append(a, e) : a \in shorter, e \in entries }

\* The messages field: an array, or no array at all.
MessagesInputs ==
  { JsArray(a) : a \in Arrays(MessageObjects \cup NonObjectEntries \cup ArrayEntries, MaxMessages) }
    \cup { JsNull, JsString(<<"D", "e", "v", "i", "n">>), JsObject([role |-> System]) }

\* The other fields carry a brand name too.
RequestFields == [model |-> JsString(<<"C", "u", "r", "s", "o", "r">>), temperature |-> JsNumber(1)]

RequestInputs ==
  { JsObject(RequestFields) } \cup { Put(JsObject(RequestFields), "messages", m) : m \in MessagesInputs }

\* getSystemPrompt(): a directive, the empty string, or nothing.
SystemPrompts == { JsString(<<"B", "e", " ", "D", "r", "o", "i", "d", ".">>), JsString(<<>>), JsUndefined }

InitTransform ==
  InitWith({NoFile}, {"ok"}, {<<>>},
           [request : RequestInputs, systemPrompt : SystemPrompts])

\* A route handler passes the body of the request to transformToCommon().
TransformToCommon ==
  /\ commonRequest = NoResult
  /\ LET r == transformToCommon(openaiRequest, systemPrompt) IN
       /\ commonRequest' = [raised |-> r.raised, value |-> r.value]
       /\ openaiRequest' = r.input
  /\ UNCHANGED <<cachedSdkVersions, cachedEnvironment, disk, diskMode, now, boot, timer,
                 tasks, restarts, calls, hist, obs, text, filtered, refiltered, systemPrompt,
                 filteredMessages>>

\* filterMessages() applied to the messages of the request.
FilterMessages ==
  /\ filteredMessages = JsNotCalled
  /\ filteredMessages' = filterMessages(Get(openaiRequest, "messages"))
  /\ UNCHANGED <<cachedSdkVersions, cachedEnvironment, disk, diskMode, now, boot, timer,
                 tasks, restarts, calls, hist, obs, text, filtered, refiltered, systemPrompt,
                 openaiRequest, commonRequest>>

NextTransform == TransformToCommon \/ FilterMessages

\* transformToCommon() and filterMessages() applied to each request.
SpecTransform == InitTransform /\ [][NextTransform]_vars

(***************************************************************************)
(* Properties.                                                             *)
(***************************************************************************)
\* The steps in which getSdkVersions() / getClientEnvironment() were called and returned.
CalledGetSdkVersions(o) == o.sdkPath # "none"
CalledGetClientEnvironment(o) == o.envPath # "none"

\* The request-path operations.
RequestOps == {"getSdkVersions", "getClientEnvironment", "getCommonHeaders"}

\* C1 (stickiness): between two rotations of one process, every call of
\* getSdkVersions() returns the triple the call before it returned, every call
\* of getClientEnvironment() the profile the call before it returned, and
\* getCommonHeaders() derives its fingerprint headers from these same values;
\* a request-path operation never replaces an in-memory selection that is set.
C1_Sticky ==
  [][ /\ (CalledGetSdkVersions(obs') /\ Truthy(hist.sdk)) => obs'.sdk = hist.sdk
      /\ (CalledGetClientEnvironment(obs') /\ Truthy(hist.env)) => obs'.env = hist.env
      /\ (obs'.op = "getCommonHeaders" /\ Truthy(hist.sdk) /\ Truthy(hist.env))
           => obs'.hdr = stainlessHeaders(obs'.client, hist.sdk, hist.env)
      /\ (obs'.op \in RequestOps /\ Truthy(cachedSdkVersions))
           => cachedSdkVersions' = cachedSdkVersions
      /\ (obs'.op \in RequestOps /\ Truthy(cachedEnvironment))
           => cachedEnvironment' = cachedEnvironment
    ]_vars

\* C1 witness: getCommonHeaders() has answered from the in-memory selection
\* that earlier calls had returned.
C1_Witness ==
  /\ obs.op = "getCommonHeaders"
  /\ obs.sdkPath = "memory" /\ obs.envPath = "memory"
  /\ obs.sdk = hist.sdk /\ obs.env = hist.env
  /\ obs.hdr["x-stainless-package-version"] = cachedSdkVersions.openai

\* C2 (restart durability): when the process restarts at a moment at which
\* startup has finished and no scheduled rotation is in progress, the first
\* getSdkVersions() and getClientEnvironment() calls of the new process return
\* the values the getters returned just before the restart.
C2_RestartDurable ==
  (restarts > 0 /\ hist.quiet)
    => /\ (obs.sdkPath \in {"disk", "drawn"} /\ Truthy(hist.preSdk))
            => obs.sdk = hist.preSdk
       /\ (obs.envPath \in {"disk", "drawn"} /\ Truthy(hist.preEnv))
            => obs.env = hist.preEnv

\* C3 (each firing refreshes first): whenever the timer callback starts, its
\* first step is a fetch of the latest CLI version.
C3_EveryTickFetches == obs.op = "tick" => obs.fetch

\* C4 as stated (a completed rotation moves the timestamp forward): when a
\* rotation ends with a successful write, the persisted timestamp is later
\* than the timestamp the record had when the rotation started.
C4_TimestampLater ==
  (obs.rotated /\ diskMode = "ok") => disk.timestamp > obs.ts0

\* C4 as amended: when a rotation ends with a successful write, the in-memory
\* SDK triple and environment are drawn pool members, the record holds exactly
\* these two values and the CLI version the rotation obtained, and its
\* timestamp is the time of the write, which is not earlier than the timestamp
\* the record had when the rotation started.
C4_RotationPersists ==
  (obs.rotated /\ diskMode = "ok")
    => /\ cachedSdkVersions \in selectRandomSdkVersions
       /\ cachedEnvironment \in selectRandomEnvironment
       /\ InSdkPools(cachedSdkVersions) /\ InEnvPool(cachedEnvironment)
       /\ disk.file = "ok"
       /\ disk.sdk_versions = cachedSdkVersions
       /\ disk.environment = cachedEnvironment
       /\ disk.version = obs.cli
       /\ disk.timestamp >= obs.ts0

\* C4 witness: a rotation that awaited its own fetch has ended and replaced a
\* record that held another SDK triple.
C4_Witness ==
  /\ obs.op = "rotFetched" /\ obs.rotated
  /\ obs.latest \in LatestVersions
  /\ obs.gcache.file = "ok" /\ obs.gcache.sdk_versions # cachedSdkVersions
  /\ disk.sdk_versions = cachedSdkVersions
  /\ disk.timestamp > obs.ts0

\* C5 (backfill of a partial record): a getter called with its module
\* variable empty on a record that holds the other field but not its own
\* returns a pool member and leaves a record with both fields, in which the
\* field already present and the CLI version are unchanged and the new field
\* is the value returned.
C5_Backfill ==
  [][ /\ ( /\ obs'.op = "getClientEnvironment"
           /\ ~Truthy(cachedEnvironment)
           /\ disk.file = "ok" /\ Truthy(disk.sdk_versions) /\ ~Truthy(disk.environment) )
        => /\ InEnvPool(obs'.env)
           /\ disk'.file = "ok"
           /\ disk'.sdk_versions = disk.sdk_versions
           /\ disk'.version = disk.version
           /\ disk'.environment = obs'.env
      /\ ( /\ obs'.op = "getSdkVersions"
           /\ ~Truthy(cachedSdkVersions)
           /\ disk.file = "ok" /\ Truthy(disk.environment) /\ ~Truthy(disk.sdk_versions) )
        => /\ InSdkPools(obs'.sdk)
           /\ disk'.file = "ok"
           /\ disk'.environment = disk.environment
           /\ disk'.version = disk.version
           /\ disk'.sdk_versions = obs'.sdk
    ]_vars

\* C5 witness: getClientEnvironment() has drawn a profile and added it to the
\* record of an earlier run that held the SDK triple only.
C5_Witness ==
  /\ obs.op = "getClientEnvironment" /\ obs.envPath = "drawn"
  /\ disk.sdk_versions = PersistedSdk
  /\ disk.version = PersistedVersion
  /\ disk.environment = obs.env

\* The record is fresh: it has a version and is younger than 24 hours.
Fresh(cache, t) ==
  /\ cache.file = "ok"
  /\ cache.version \notin {UNDEF, ""}
  /\ cache.timestamp # 0
  /\ t - cache.timestamp < UPDATE_INTERVAL_MS

AllVersions == LatestVersions \cup {PersistedVersion, DEFAULT_VERSION}

\* C6 (getFactoryCliVersion always returns a version): called on a fresh
\* record it returns the persisted version without fetching; otherwise it
\* awaits the fetch and returns the fetched version, else the version of the
\* record it read, else the default; a failed fetch leaves the file as it is.
C6_CliVersionFallback ==
  [][ /\ obs'.ver # UNDEF => obs'.ver \in AllVersions
      /\ obs'.rotated => obs'.cli \in AllVersions
      /\ obs'.op \in {"boot", "tick", "getFactoryCliVersion"}
           => LET cache == loadVersionCache(disk, diskMode) IN
              IF Fresh(cache, now)
              THEN obs'.ver = cache.version /\ ~obs'.fetch /\ obs'.gdisk = disk
              ELSE obs'.fetch /\ obs'.ver = UNDEF
      /\ (obs'.latest # UNDEF /\ obs'.latest # FETCH_FAILED) => obs'.ver = obs'.latest
      /\ obs'.latest = FETCH_FAILED
           => /\ obs'.ver = IF obs'.gcache.file = "ok" /\ obs'.gcache.version \notin {UNDEF, ""}
                            THEN obs'.gcache.version
                            ELSE DEFAULT_VERSION
              /\ obs'.gdisk = disk
    ]_vars

\* C6 witness: the fetch of the startup call has failed and the version of the
\* stale record was returned.
C6_Witness ==
  /\ obs.op = "bootFetched"
  /\ obs.latest = FETCH_FAILED
  /\ obs.gcache.file = "ok"
  /\ obs.ver = PersistedVersion

\* C7 (scheduled rotations never overlap): a timer callback never starts while
\* an earlier callback is suspended at its version fetch.
C7_NoOverlap == obs.op = "tick" => ~obs.overlap

\* C8 (malformed fields are replaced): whatever the record holds,
\* getSdkVersions() returns a triple of pool members and
\* getClientEnvironment() one of the fixed profiles.
C8_PoolMembers ==
  /\ CalledGetSdkVersions(obs) => InSdkPools(obs.sdk)
  /\ CalledGetClientEnvironment(obs) => InEnvPool(obs.env)

\* C9 (disk failure degrades to in-memory operation): when every read and
\* write of the file fails, the getters return pool members and keep returning
\* the same value until the next rotation, getFactoryCliVersion() returns the
\* fetched version or the default, a scheduled rotation ends with a drawn
\* in-memory selection, and the file is never touched.
C9_DiskDown ==
  [][ diskMode = "down"
        => /\ CalledGetSdkVersions(obs') => InSdkPools(obs'.sdk)
           /\ CalledGetClientEnvironment(obs') => InEnvPool(obs'.env)
           /\ (CalledGetSdkVersions(obs') /\ Truthy(hist.sdk)) => obs'.sdk = hist.sdk
           /\ (CalledGetClientEnvironment(obs') /\ Truthy(hist.env)) => obs'.env = hist.env
           /\ obs'.ver # UNDEF => obs'.ver \in LatestVersions \cup {DEFAULT_VERSION}
           /\ obs'.rotated => /\ InSdkPools(cachedSdkVersions')
                              /\ InEnvPool(cachedEnvironment')
                              /\ obs'.cli \in LatestVersions \cup {DEFAULT_VERSION}
           /\ disk' = disk
    ]_vars

\* C9 witness: with the disk down, a scheduled rotation has taken place and
\* getCommonHeaders() has then answered from memory.
C9_Witness ==
  /\ diskMode = "down"
  /\ timer > StartClock + UPDATE_INTERVAL_MS
  /\ tasks = <<>>
  /\ obs.op = "getCommonHeaders"
  /\ obs.sdkPath = "memory" /\ obs.envPath = "memory"
  /\ cachedSdkVersions \in selectRandomSdkVersions

\* C10 (idempotence): filtering the result of filterText() again changes
\* nothing, and the result holds no match of a pattern of the list.
C10_Idempotent ==
  /\ refiltered # NotCalled => refiltered = filtered
  /\ filtered # NotCalled => ~HasBrandMatch(filtered)

\* The request transformation was called and has returned or raised.
Transformed == commonRequest # NoResult

\* The messages of the caller's request, and of the result.
InMessages == Get(openaiRequest, "messages")
OutMessages == Get(commonRequest.value, "messages")

\* The request carries an array of message objects.
WellFormedMessages ==
  /\ Tag(InMessages) = "array"
  /\ \A i \in 1 .. Len(Val(InMessages)) : Tag(Val(InMessages)[i]) = "object"

SystemIndexes == { i \in 1 .. Len(Val(InMessages)) : IsSystem(Val(InMessages)[i]) }

\* The content of a message as the directive is put before it: its text when
\* it is a string, else the empty string.
ContentText(msg) ==
  IF Tag(Get(msg, "content")) = "string" THEN Val(Get(msg, "content")) ELSE <<>>

\* C11 (directive before the first system message): for an array of message
\* objects with a system message and a non-empty directive D, the result has
\* the same number of messages; the first system message has content D
\* followed by filterText of its original content, and every other message is
\* the redacted original.
C11_FirstSystemOnly ==
  (Transformed /\ JsTruthy(systemPrompt) /\ WellFormedMessages /\ SystemIndexes # {})
    => /\ ~commonRequest.raised
       /\ Tag(OutMessages) = "array"
       /\ Len(Val(OutMessages)) = Len(Val(InMessages))
       /\ \A i \in 1 .. Len(Val(InMessages)) :
            IF i \in SystemIndexes /\ \A j \in SystemIndexes : i <= j
            THEN /\ Get(Val(OutMessages)[i], "role") = System
                 /\ Get(Val(OutMessages)[i], "content") =
                      JsString(Val(systemPrompt) \o filterText(ContentText(Val(InMessages)[i])))
            ELSE Val(OutMessages)[i] = filterMessage(Val(InMessages)[i])

\* C12 (directive as a new first message): for an array of message objects
\* without a system message and a non-empty directive D, the result is the
\* message {role: system, content: D} followed by the redacted messages in
\* their order; with an empty or absent directive the result is the redacted
\* messages and nothing else.
C12_DirectiveFirst ==
  (Transformed /\ WellFormedMessages)
    => /\ (JsTruthy(systemPrompt) /\ SystemIndexes = {})
            => /\ ~commonRequest.raised
               /\ Tag(OutMessages) = "array"
               /\ Len(Val(OutMessages)) = Len(Val(InMessages)) + 1
               /\ Val(OutMessages)[1] = JsObject([role |-> System, content |-> systemPrompt])
               /\ \A i \in 1 .. Len(Val(InMessages)) :
                    Val(OutMessages)[i + 1] = filterMessage(Val(InMessages)[i])
       /\ ~JsTruthy(systemPrompt)
            => /\ ~commonRequest.raised
               /\ OutMessages = filterMessages(InMessages)
               /\ Len(Val(OutMessages)) = Len(Val(InMessages))

\* C12 witness: two user messages, the first of them changed by the filter,
\* have the directive before them.
C12_Witness ==
  /\ Transformed /\ WellFormedMessages /\ JsTruthy(systemPrompt)
  /\ SystemIndexes = {}
  /\ Len(Val(InMessages)) = 2
  /\ Len(Val(OutMessages)) = 3
  /\ Get(Val(OutMessages)[1], "content") = systemPrompt
  /\ Val(OutMessages)[2] # Val(InMessages)[1]

\* C13 (no raise on a malformed shape): whatever the messages field holds and
\* whatever the directive is, transformToCommon returns a value.
C13_NeverRaises == Transformed => ~commonRequest.raised

\* C17 (the other fields and the input are left alone): a call that returns
\* has copied every field of the request but messages into the result with
\* its value, has added no field but messages, and no call has changed the
\* caller's request object or its messages.
C17_FrameOfTransform ==
  [][ commonRequest' # commonRequest
        => /\ openaiRequest' = openaiRequest
           /\ ~commonRequest'.raised
                => /\ DOMAIN Val(commonRequest'.value) = DOMAIN Val(openaiRequest) \cup {"messages"}
                   /\ \A k \in DOMAIN Val(openaiRequest) \ {"messages"} :
                        Val(commonRequest'.value)[k] = Val(openaiRequest)[k]
    ]_vars

\* C17 witness: a call has returned a request whose messages differ from the
\* caller's and whose model is the caller's.
C17_Witness ==
  /\ Transformed /\ ~commonRequest.raised /\ WellFormedMessages
  /\ OutMessages # InMessages
  /\ ~JsTruthy(systemPrompt)
  /\ Get(commonRequest.value, "model") = Get(openaiRequest, "model")
  /\ Get(commonRequest.value, "temperature") = JsNumber(1)

\* What C18 says of one part of a content array.
PartPreserved(part, out) ==
  CASE Tag(part) = "string" -> out = JsString(filterText(Val(part)))
    [] Tag(part) = "object" ->
         /\ Tag(out) = "object"
         /\ DOMAIN Val(out) = DOMAIN Val(part)
         /\ \A k \in DOMAIN Val(part) :
              Val(out)[k] =
                IF k \in {"text", "content"} /\ Tag(Val(part)[k]) = "string"
                THEN JsString(filterText(Val(Val(part)[k])))
                ELSE Val(part)[k]
    [] OTHER -> out = part

\* What C18 says of the content of a message.
ContentPreserved(content, out) ==
  CASE Tag(content) = "string" -> out = JsString(filterText(Val(content)))
    [] Tag(content) = "array" ->
         /\ Tag(out) = "array"
         /\ Len(Val(out)) = Len(Val(content))
         /\ \A i \in 1 .. Len(Val(content)) : PartPreserved(Val(content)[i], Val(out)[i])
    [] OTHER -> out = content

\* C18 (the filter preserves structure): filterMessages returns as many
\* entries as it was given, in their order; an entry differs from the
\* original in its content field only; a string content and a string part
\* are their filterText; an object part keeps its fields, with its string
\* text and content replaced by their filterText; anything else is returned
\* as it is.
C18_StructurePreserved ==
  filteredMessages # JsNotCalled
    => IF Tag(InMessages) # "array"
       THEN filteredMessages = InMessages
       ELSE /\ Tag(filteredMessages) = "array"
            /\ Len(Val(filteredMessages)) = Len(Val(InMessages))
            /\ \A i \in 1 .. Len(Val(InMessages)) :
                 LET msg == Val(InMessages)[i]
                     out == Val(filteredMessages)[i]
                 IN IF Tag(msg) # "object"
                    THEN out = msg
                    ELSE /\ Tag(out) = "object"
                         /\ DOMAIN Val(out) = DOMAIN Val(msg)
                         /\ \A k \in DOMAIN Val(msg) \ {"content"} : Val(out)[k] = Val(msg)[k]
                         /\ "content" \in DOMAIN Val(msg)
                              => ContentPreserved(Val(msg)["content"], Val(out)["content"])

\* getCommonHeaders() ran in the last step.
CalledGetCommonHeaders == obs.op = "getCommonHeaders"

\* C14 (the caller's SDK-fingerprint headers win): each of the seven
\* x-stainless headers of the result is the caller's value when the caller
\* sent that name, whatever the value, and else the value of the current
\* selection or the fixed default.
C14_CallerOverrideWins ==
  CalledGetCommonHeaders
    => \A h \in StainlessHeaders :
         obs.headers[h] = IF obs.client[h] # UNDEF
                          THEN obs.client[h]
                          ELSE stainlessDefaults(obs.sdk, obs.env)[h]

HexDigitSet == { HexDigits[i] : i \in 1 .. Len(HexDigits) }

\* 8-4-4-4-12 hexadecimal digits, the version digit 4, the variant digit one
\* of 8, 9, a, b.
UuidV4Shape(id) ==
  /\ Len(id) = 36
  /\ \A p \in 1 .. 36 :
       IF p \in {9, 14, 19, 24} THEN id[p] = "-" ELSE id[p] \in HexDigitSet
  /\ id[15] = "4"
  /\ id[20] \in {"8", "9", "a", "b"}

\* C15 (correlation identifiers): x-session-id and x-assistant-message-id of
\* the result are the caller's value when the caller sent one, and else have
\* the UUID-v4 shape.
C15_CorrelationIds ==
  CalledGetCommonHeaders
    => \A h \in IdHeaders :
         IF obs.client[h] # NoId
         THEN obs.headers[h] = obs.client[h]
         ELSE UuidV4Shape(obs.headers[h])

\* C16 (a fixed set of names): the result has the sixteen names of the
\* function and no other, whatever the credential and the caller's headers
\* are; a header of the caller under another name is not in it, and
\* authorization is the credential, or the empty string when there is none.
C16_FixedNames ==
  CalledGetCommonHeaders
    => /\ DOMAIN obs.headers = BaseHeaders \cup StainlessHeaders
       /\ "x-custom" \notin DOMAIN obs.headers
       /\ obs.headers["authorization"] =
            IF obs.auth \in {UNDEF, NullAuth} THEN "" ELSE obs.auth
       /\ obs.headers["authorization"] \notin {UNDEF, NullAuth}

\* C16 witness: a call without a credential, with a header the function does
\* not know.
C16_Witness ==
  /\ CalledGetCommonHeaders
  /\ obs.auth = UNDEF
  /\ obs.client["x-custom"] = "1"
  /\ obs.headers["authorization"] = ""
  /\ obs.headers["user-agent"] = getUserAgentSync

\* C19 (no lost update on a CLI-version refresh): when getFactoryCliVersion()
\* writes a newly fetched version, the SDK triple and the environment the
\* record held just before that write are in the record it writes.
C19_NoLostUpdate ==
  [][ ( /\ obs'.op \in {"bootFetched", "cliFetched", "rotFetched", "versionFetched"}
        /\ obs'.latest \in LatestVersions
        /\ diskMode = "ok" /\ disk.file = "ok" )
        => /\ Truthy(disk.sdk_versions) => obs'.gdisk.sdk_versions = disk.sdk_versions
           /\ Truthy(disk.environment) => obs'.gdisk.environment = disk.environment
    ]_vars

\* C20 (a rotation replaces both selections at once): once a rotation has
\* drawn a selection, every getCommonHeaders() call sees the SDK triple and
\* the environment of the latest rotation, both of them, also while the
\* version fetch of that rotation is outstanding.
C20_NoMixedSelection ==
  /\ Truthy(hist.rotation.sdk)
       => cachedSdkVersions = hist.rotation.sdk /\ cachedEnvironment = hist.rotation.env
  /\ (CalledGetCommonHeaders /\ Truthy(hist.rotation.sdk))
       => /\ obs.sdk = hist.rotation.sdk /\ obs.env = hist.rotation.env
          /\ obs.hdr = stainlessHeaders(obs.client, hist.rotation.sdk, hist.rotation.env)

\* C20 witness: getCommonHeaders() has run while the version fetch of a
\* rotation is outstanding, and has seen the selection that rotation drew
\* while the file still holds another one.
C20_Witness ==
  /\ CalledGetCommonHeaders
  /\ \E i \in 1 .. Len(tasks) : tasks[i].pc = "rot"
  /\ obs.sdk = hist.rotation.sdk /\ obs.env = hist.rotation.env
  /\ disk.file = "ok"
  /\ disk.sdk_versions # obs.sdk /\ disk.environment # obs.env

\* A getter or a rotation has written the file in the last step.
WroteSelection ==
  /\ diskMode = "ok"
  /\ obs.sdkPath = "drawn" \/ obs.envPath = "drawn" \/ obs.rotated

\* C21 (memory and disk agree after a write): after a successful write of the
\* record by getSdkVersions(), getClientEnvironment() or a rotation, the
\* persisted SDK triple is the in-memory one when that is set, and the
\* persisted environment is the in-memory one when that is set.
C21_MemoryDiskAgree ==
  WroteSelection
    => /\ Truthy(cachedSdkVersions) => disk.sdk_versions = cachedSdkVersions
       /\ Truthy(cachedEnvironment) => disk.environment = cachedEnvironment

====
